---- MODULE Spec2Model ----
(***************************************************************************)
(* The /read_csv endpoint of src/main.py (S3 CSV -> Databricks schema      *)
(* sync).  A request downloads one S3 object into a file of the working    *)
(* directory, parses it, deletes the file, reads the remote table's schema,*)
(* diffs the column names and issues one ALTER TABLE per missing column.   *)
(*                                                                         *)
(* Requests are processes with a program counter; the object store, the    *)
(* working directory and the remote table are shared.  Every outcome that  *)
(* an external call can have (raise / return) is a choice of the           *)
(* environment.                                                            *)
(***************************************************************************)
EXTENDS Integers, Sequences, FiniteSets, TLC

\* Number of requests the server receives in one run.
NumRequests == 2

Requests == 1..NumRequests

\* Number of faults the environment injects in one run: calls that raise
\* although the state would let them succeed.
MaxFaults == 2

\* Longest CSV header and longest remote schema of the diffing runs.
MaxCols == 3
MaxSchema == 2

Range(s) == {s[i] : i \in 1..Len(s)}

NoDuplicates(s) == \A i, j \in 1..Len(s) : i # j => s[i] # s[j]

SeqsUpTo(S, n) == UNION {[1..k -> S] : k \in 0..n}

-----------------------------------------------------------------------------
(* Module configuration, main.py 14-23 *)

RequiredConfig ==
    {"AWS_ACCESS_KEY_ID", "AWS_SECRET_ACCESS_KEY", "S3_BUCKET",
     "DATABRICKS_HOST", "DATABRICKS_TOKEN", "DATABRICKS_HTTP_PATH"}

\* The environments the process is started in: everything set, or one
\* required value unset (os.getenv then yields None).
Environments == {RequiredConfig} \cup {RequiredConfig \ {v} : v \in RequiredConfig}

-----------------------------------------------------------------------------
(* The object store: keys are paths (sequences of segments), objects are   *)
(* CSV texts.                                                              *)

KeyInX  == <<"in", "x.csv">>
KeyOutX == <<"out", "x.csv">>
KeyNone == <<"none.csv">>

Keys == {KeyInX, KeyOutX, KeyNone}

StoredKeys == {KeyInX, KeyOutX}

Object(key) ==
    CASE key = KeyInX  -> [kind |-> "csv", columns |-> <<"A", "B", "C">>,
                           rows |-> << <<"1", "2", "3">>, <<"4", "5", "6">> >>]
      [] key = KeyOutX -> [kind |-> "garbage"]

\* os.path.basename: the part after the last "/".
basename(path) == path[Len(path)]

LocalNames == {basename(k) : k \in Keys}

NoFile == [kind |-> "absent"]

-----------------------------------------------------------------------------
(* The remote table *)

\* The schemas the remote table can have when the server starts.
InitialSchemas == {<<"A", "B">>, <<"a", "B">>, <<"A", "B", "C">>}

\* The remote engine resolves column names case-insensitively.
Fold(c) == IF c = "a" THEN "A" ELSE c

-----------------------------------------------------------------------------
VARIABLES
    config,            \* the configuration values that are set
    fs,                \* working directory: local name -> file
    table,             \* the remote table's column names, in order
    pc,                \* stage of each request
    file_path,         \* request parameter
    df,                \* the parsed table (pd.read_csv's result)
    csv_error,         \* whether pd.read_csv raised
    current_schema,    \* get_table_schema's result, or [] when it raised
    missing_columns,
    todo,              \* columns update_table_schema's loop has still to visit
    response,          \* the HTTP response
    \* history, for stating the properties
    initial_table,     \* the remote table's columns at start-up
    cause,             \* what failed at the failing stage
    removal,           \* what os.remove did
    schema_query,      \* what get_table_schema did: "none", "ok", "raised"
    evolve_conn,       \* update_table_schema's connection
    attempts,          \* the ALTER statements executed, with their outcome
    table_at_start,    \* the remote table when the request arrived
    table_at_query,    \* the remote table when its schema was queried
    faults             \* the faults injected so far

shared == <<config, fs, table, initial_table>>
locals == <<pc, file_path, df, csv_error, current_schema, missing_columns,
            todo, response>>
history == <<cause, removal, schema_query, evolve_conn, attempts,
             table_at_start, table_at_query>>
env == <<faults>>
vars == <<shared, locals, history, env>>

NoDf == [kind |-> "none", columns |-> <<>>, rows |-> <<>>]
NoResponse == [pending |-> TRUE]

Init ==
    /\ config \in Environments
    /\ fs = [n \in LocalNames |-> NoFile]
    /\ table \in InitialSchemas
    /\ initial_table = table
    /\ pc = [r \in Requests |-> "Idle"]
    /\ file_path = [r \in Requests |-> <<>>]
    /\ df = [r \in Requests |-> NoDf]
    /\ csv_error = [r \in Requests |-> FALSE]
    /\ current_schema = [r \in Requests |-> <<>>]
    /\ missing_columns = [r \in Requests |-> <<>>]
    /\ todo = [r \in Requests |-> <<>>]
    /\ response = [r \in Requests |-> NoResponse]
    /\ cause = [r \in Requests |-> "none"]
    /\ removal = [r \in Requests |-> "none"]
    /\ schema_query = [r \in Requests |-> "none"]
    /\ evolve_conn = [r \in Requests |-> "none"]
    /\ attempts = [r \in Requests |-> <<>>]
    /\ table_at_start = [r \in Requests |-> <<>>]
    /\ table_at_query = [r \in Requests |-> <<>>]
    /\ faults = 0

\* A call that can raise for reasons outside the program: the outcomes the
\* state allows, and the outcome of a fault while the budget lasts.
WithFault(natural, fault) ==
    natural \cup (IF faults < MaxFaults THEN {fault} ELSE {})

Charge(outcome, natural) ==
    faults' = IF outcome \in natural THEN faults ELSE faults + 1

-----------------------------------------------------------------------------
(* Responses *)

HTTPException(status_code, detail) ==
    [status |-> status_code, detail |-> detail]

\* df.to_dict(orient='records'): one mapping column -> cell per row.
to_dict(frame) ==
    [i \in 1..Len(frame.rows) |->
        [c \in Range(frame.columns) |->
            frame.rows[i][CHOOSE j \in 1..Len(frame.columns) : frame.columns[j] = c]]]

SuccessResponse(r) ==
    [status |-> 200,
     data |-> to_dict(df[r]),
     csv_columns |-> df[r].columns,
     table_columns |-> current_schema[r],
     missing_columns |-> missing_columns[r],
     total_rows |-> Len(df[r].rows)]

-----------------------------------------------------------------------------
(* Arrival of a request *)

Start(r) ==
    /\ pc[r] = "Idle"
    /\ \A q \in Requests : q < r => pc[q] # "Idle"
    /\ \E key \in Keys : file_path' = [file_path EXCEPT ![r] = key]
    /\ pc' = [pc EXCEPT ![r] = "Fetching"]
    /\ table_at_start' = [table_at_start EXCEPT ![r] = table]
    /\ UNCHANGED <<shared, df, csv_error, current_schema, missing_columns, todo,
                   response, cause, removal, schema_query, evolve_conn,
                   attempts, table_at_query, env>>

-----------------------------------------------------------------------------
(* Fetching: get_s3_client and download_file *)

\* boto3.client with nothing going wrong: TRUE when it returns a client.  It
\* raises PartialCredentialsError when one of the two keys is None.
get_s3_client == {"AWS_ACCESS_KEY_ID", "AWS_SECRET_ACCESS_KEY"} \subseteq config

ClientOutcomes == WithFault({get_s3_client}, FALSE)

\* s3_client.download_file for a key, with nothing going wrong on the way.
download_file(key) ==
    IF "S3_BUCKET" \notin config THEN "ParamValidation"
    ELSE IF key \notin StoredKeys THEN "NotFound"
    ELSE "ok"

DownloadOutcomes(key) == WithFault({download_file(key)}, "AccessDenied")

\* The except clause around download_file.
DownloadStatus(outcome) == 404

Fetch(r) ==
    /\ pc[r] = "Fetching"
    /\ \E client \in ClientOutcomes, outcome \in DownloadOutcomes(file_path[r]) :
         IF ~client
         THEN /\ pc' = [pc EXCEPT ![r] = "Failed"]
              /\ cause' = [cause EXCEPT ![r] = "ClientError"]
              /\ response' = [response EXCEPT ![r] =
                                 HTTPException(500, "Error connecting to S3")]
              /\ Charge(client, {get_s3_client})
              /\ outcome = download_file(file_path[r])
              /\ UNCHANGED fs
         ELSE IF outcome = "ok"
         THEN /\ fs' = [fs EXCEPT ![basename(file_path[r])] =
                           [kind |-> "file", content |-> Object(file_path[r]),
                            writer |-> r]]
              /\ pc' = [pc EXCEPT ![r] = "Parsing"]
              /\ UNCHANGED <<cause, response, faults>>
         ELSE /\ pc' = [pc EXCEPT ![r] = "Failed"]
              /\ cause' = [cause EXCEPT ![r] = outcome]
              /\ response' = [response EXCEPT ![r] =
                                 HTTPException(DownloadStatus(outcome),
                                               "Could not download file from S3")]
              /\ Charge(outcome, {download_file(file_path[r])})
              /\ UNCHANGED fs
    /\ UNCHANGED <<config, table, initial_table, file_path, df, csv_error,
                   current_schema, missing_columns, todo, removal,
                   schema_query, evolve_conn, attempts, table_at_start,
                   table_at_query>>

-----------------------------------------------------------------------------
(* Parsing: pd.read_csv, then the finally block that removes the file *)

\* pd.read_csv(local_file_path): the table, or NoDf when it raises.
read_csv(file) ==
    IF file.kind = "file" /\ file.content.kind = "csv"
    THEN [kind |-> "frame", columns |-> file.content.columns,
          rows |-> file.content.rows]
    ELSE NoDf

Parse(r) ==
    /\ pc[r] = "Parsing"
    /\ LET file == fs[basename(file_path[r])]
           frame == read_csv(file) IN
         /\ df' = [df EXCEPT ![r] = frame]
         /\ csv_error' = [csv_error EXCEPT ![r] = (frame = NoDf)]
         /\ cause' = [cause EXCEPT ![r] =
                IF frame # NoDf THEN "none"
                ELSE IF file = NoFile THEN "FileMissing"
                ELSE "Malformed"]
    /\ pc' = [pc EXCEPT ![r] = "ParsingFinally"]
    /\ UNCHANGED <<shared, file_path, current_schema, missing_columns, todo,
                   response, removal, schema_query, evolve_conn, attempts,
                   table_at_start, table_at_query, env>>

\* os.remove on a file, with nothing going wrong: an absent file makes it
\* raise FileNotFoundError.
os_remove(file) == IF file = NoFile THEN "raised" ELSE "removed"

\* It can also raise on a file that is there (PermissionError and the like).
RemoveOutcomes(file) == WithFault({os_remove(file)}, "raised")

\* The removal placed after the try statement instead of in its finally
\* clause: it is skipped when pd.read_csv raised.
CleansOnSuccessOnly(failed) == ~failed

\* Whether the removal runs, given whether pd.read_csv raised: it is in the
\* finally clause.
Cleans(failed) == TRUE

\* A parse failure that is logged and not raised.
AfterParseContinue(failed) == "SchemaQuery"

\* The stage after the try/except/finally around pd.read_csv.
AfterParse(failed) == IF failed THEN "Failed" ELSE "SchemaQuery"

ParseFinally(r) ==
    /\ pc[r] = "ParsingFinally"
    /\ LET file == fs[basename(file_path[r])] IN
         IF Cleans(csv_error[r])
         THEN \E outcome \in RemoveOutcomes(file) :
                /\ removal' = [removal EXCEPT ![r] = outcome]
                /\ fs' = IF outcome = "removed"
                         THEN [fs EXCEPT ![basename(file_path[r])] = NoFile]
                         ELSE fs
                /\ Charge(outcome, {os_remove(file)})
         ELSE UNCHANGED <<removal, fs, faults>>
    /\ pc' = [pc EXCEPT ![r] = AfterParse(csv_error[r])]
    /\ response' = [response EXCEPT ![r] =
                       IF AfterParse(csv_error[r]) = "Failed"
                       THEN HTTPException(400, "Could not read CSV file")
                       ELSE @]
    /\ UNCHANGED <<config, table, initial_table, file_path, df, csv_error,
                   current_schema, missing_columns, todo, cause,
                   schema_query, evolve_conn, attempts, table_at_start,
                   table_at_query>>

-----------------------------------------------------------------------------
(* The remote connection *)

\* get_databricks_connection with nothing going wrong: TRUE when it returns
\* a connection.  DATABRICKS_TOKEN[:5] and DATABRICKS_HOST.replace raise
\* when the value is None, and connect() rejects an http_path of None.
get_databricks_connection ==
    {"DATABRICKS_HOST", "DATABRICKS_TOKEN", "DATABRICKS_HTTP_PATH"} \subseteq config

\* connect() can raise as well.
ConnectOutcomes == WithFault({get_databricks_connection}, FALSE)

\* A schema kept from start-up instead of queried for each request.
get_table_schema_cached == initial_table

\* get_table_schema on a connection that opened: the first field of every
\* row of DESCRIBE TABLE.
get_table_schema == table

\* What the handler goes on with when get_table_schema raised.
SchemaOnError == <<>>

\* The strict policy: a schema query that raised aborts the request.
AfterSchemaQueryStrict(failed) == IF failed THEN "Failed" ELSE "Diffing"

\* The stage after the try/except around get_table_schema.
AfterSchemaQuery(failed) == "Diffing"

SchemaQuery(r) ==
    /\ pc[r] = "SchemaQuery"
    /\ \E ok \in ConnectOutcomes :
         /\ current_schema' = [current_schema EXCEPT ![r] =
                                  IF ok THEN get_table_schema ELSE SchemaOnError]
         /\ schema_query' = [schema_query EXCEPT ![r] =
                                IF ok THEN "ok" ELSE "raised"]
         /\ pc' = [pc EXCEPT ![r] = AfterSchemaQuery(~ok)]
         /\ Charge(ok, {get_databricks_connection})
    /\ table_at_query' = [table_at_query EXCEPT ![r] = table]
    /\ UNCHANGED <<shared, file_path, df, csv_error, missing_columns, todo,
                   response, cause, removal, evolve_conn, attempts,
                   table_at_start>>

-----------------------------------------------------------------------------
(* Diffing *)

\* The comparison done on case-folded names.
MissingFolded(columns, schema) ==
    SelectSeq(columns, LAMBDA col : Fold(col) \notin {Fold(c) : c \in Range(schema)})

\* [col for col in df.columns if col not in current_schema]
Missing(columns, schema) ==
    SelectSeq(columns, LAMBDA col : col \notin Range(schema))

Diff(r) ==
    /\ pc[r] = "Diffing"
    /\ missing_columns' = [missing_columns EXCEPT ![r] =
                              Missing(df[r].columns, current_schema[r])]
    /\ pc' = [pc EXCEPT ![r] = "Evolving"]
    /\ UNCHANGED <<shared, file_path, df, csv_error, current_schema, todo,
                   response, history, env>>

-----------------------------------------------------------------------------
(* Evolving: update_table_schema *)

Respond(r) ==
    /\ pc' = [pc EXCEPT ![r] = "Responding"]
    /\ response' = [response EXCEPT ![r] = SuccessResponse(r)]

\* update_table_schema called without the test.
NeedsUpdateAlways(missing) == TRUE

\* if missing_columns:
NeedsUpdate(missing) == missing # <<>>

EvolveBegin(r) ==
    /\ pc[r] = "Evolving"
    /\ evolve_conn[r] = "none"
    /\ IF ~NeedsUpdate(missing_columns[r])
       THEN /\ Respond(r)
            /\ UNCHANGED <<evolve_conn, todo, faults>>
       ELSE \E ok \in ConnectOutcomes :
              /\ Charge(ok, {get_databricks_connection})
              /\ IF ok /\ missing_columns[r] # <<>>
                 THEN /\ evolve_conn' = [evolve_conn EXCEPT ![r] = "open"]
                      /\ todo' = [todo EXCEPT ![r] = missing_columns[r]]
                      /\ UNCHANGED <<pc, response>>
                 ELSE /\ evolve_conn' = [evolve_conn EXCEPT ![r] =
                                            IF ok THEN "closed" ELSE "failed"]
                      /\ Respond(r)
                      /\ UNCHANGED todo
    /\ UNCHANGED <<shared, file_path, df, csv_error, current_schema,
                   missing_columns, cause, removal, schema_query, attempts,
                   table_at_start, table_at_query>>

\* ALTER TABLE ... ADD COLUMN col STRING with nothing going wrong: TRUE when
\* the statement succeeds.  The engine rejects a name the table already has.
add_column(col) == Fold(col) \notin {Fold(c) : c \in Range(table)}

AlterOutcomes(col) == WithFault({add_column(col)}, FALSE)

\* The try around the loop instead of inside it: a statement that fails
\* ends the loop.
RemainingUntilFailure(cols, ok) == IF ok THEN Tail(cols) ELSE <<>>

\* The columns the for loop visits after the first of cols, given what the
\* statement for it did.
Remaining(cols, ok) == Tail(cols)

AlterStep(r) ==
    /\ pc[r] = "Evolving"
    /\ evolve_conn[r] = "open"
    /\ todo[r] # <<>>
    /\ LET col == Head(todo[r]) IN
         \E ok \in AlterOutcomes(col) :
            /\ table' = IF ok THEN Append(table, col) ELSE table
            /\ attempts' = [attempts EXCEPT ![r] = Append(@, <<col, ok>>)]
            /\ todo' = [todo EXCEPT ![r] = Remaining(todo[r], ok)]
            /\ Charge(ok, {add_column(col)})
            /\ IF Remaining(todo[r], ok) = <<>>
               THEN /\ evolve_conn' = [evolve_conn EXCEPT ![r] = "closed"]
                    /\ Respond(r)
               ELSE UNCHANGED <<evolve_conn, pc, response>>
    /\ UNCHANGED <<config, fs, initial_table, file_path, df, csv_error,
                   current_schema, missing_columns, cause, removal,
                   schema_query, table_at_start, table_at_query>>

-----------------------------------------------------------------------------
Next ==
    \E r \in Requests :
        \/ Start(r)
        \/ Fetch(r)
        \/ Parse(r)
        \/ ParseFinally(r)
        \/ SchemaQuery(r)
        \/ Diff(r)
        \/ EvolveBegin(r)
        \/ AlterStep(r)

Spec == Init /\ [][Next]_vars

-----------------------------------------------------------------------------
(* Diffing runs: one request that has fetched and parsed a CSV with any    *)
(* header, against a remote table with any schema, from the schema query   *)
(* on.                                                                     *)

Names == {"A", "a", "B", "C"}

\* pd.read_csv yields distinct column names.
CsvHeaders ==
    {h \in SeqsUpTo(Names, MaxCols) : Len(h) >= 1 /\ NoDuplicates(h)}

\* The remote engine holds no two names that differ in case only.
RemoteSchemas ==
    {t \in SeqsUpTo(Names, MaxSchema) : NoDuplicates([i \in 1..Len(t) |-> Fold(t[i])])}

DiffInit ==
    /\ config = RequiredConfig
    /\ fs = [n \in LocalNames |-> NoFile]
    /\ table \in RemoteSchemas
    /\ initial_table = table
    /\ pc = [r \in Requests |-> IF r = 1 THEN "Diffing" ELSE "Idle"]
    /\ file_path = [r \in Requests |-> IF r = 1 THEN KeyInX ELSE <<>>]
    /\ \E h \in CsvHeaders :
          df = [r \in Requests |->
                  IF r = 1 THEN [kind |-> "frame", columns |-> h, rows |-> <<>>]
                  ELSE NoDf]
    /\ csv_error = [r \in Requests |-> FALSE]
    /\ \E ok \in BOOLEAN :
          /\ current_schema = [r \in Requests |->
                                 IF r = 1 /\ ok THEN table ELSE SchemaOnError]
          /\ schema_query = [r \in Requests |->
                               IF r # 1 THEN "none" ELSE IF ok THEN "ok" ELSE "raised"]
          /\ faults = IF ok THEN 0 ELSE 1
    /\ missing_columns = [r \in Requests |-> <<>>]
    /\ todo = [r \in Requests |-> <<>>]
    /\ response = [r \in Requests |-> NoResponse]
    /\ cause = [r \in Requests |-> "none"]
    /\ removal = [r \in Requests |-> IF r = 1 THEN "removed" ELSE "none"]
    /\ evolve_conn = [r \in Requests |-> "none"]
    /\ attempts = [r \in Requests |-> <<>>]
    /\ table_at_start = [r \in Requests |-> IF r = 1 THEN table ELSE <<>>]
    /\ table_at_query = [r \in Requests |-> IF r = 1 THEN table ELSE <<>>]

DiffNext ==
    \E r \in Requests :
        \/ Diff(r)
        \/ EvolveBegin(r)
        \/ AlterStep(r)

DiffSpec == DiffInit /\ [][DiffNext]_vars

-----------------------------------------------------------------------------
(* Vocabulary of the properties *)

Arrived(r) == pc[r] # "Idle"

\* The request's own buffer: the file it downloaded is still in the working
\* directory.
BufferPresent(r) ==
    /\ Arrived(r)
    /\ fs[basename(file_path[r])] # NoFile
    /\ fs[basename(file_path[r])].writer = r

PastParsing == {"SchemaQuery", "Diffing", "Evolving", "Responding"}
PastDiffing == {"Evolving", "Responding"}

FetchFailures == {"ClientError", "ParamValidation", "NotFound", "AccessDenied"}
FailedAtFetch(r) == pc[r] = "Failed" /\ cause[r] \in FetchFailures
FailedAtParse(r) == pc[r] = "Failed" /\ cause[r] \in {"Malformed", "FileMissing"}

\* The columns of the ALTER statements the request has executed, in order.
AttemptedCols(r) == [i \in 1..Len(attempts[r]) |-> attempts[r][i][1]]

\* s lists elements of t in t's order.
InOrderOf(s, t) ==
    \A i, j \in 1..Len(s) :
        i < j => \E k, l \in 1..Len(t) : k < l /\ t[k] = s[i] /\ t[l] = s[j]

IsPrefix(s, t) == Len(s) <= Len(t) /\ \A i \in 1..Len(s) : s[i] = t[i]

-----------------------------------------------------------------------------
(* C1, as stated: in no state after the Parsing stage, and in no terminal  *)
(* state, is the request's buffer still present.                           *)
C1_BufferNeverLeftBehind ==
    \A r \in Requests :
        pc[r] \in PastParsing \cup {"Failed"} => ~BufferPresent(r)

(* C1, amended: a request that failed at fetch has no buffer and removed   *)
(* nothing; a request whose fetch succeeded has called os.remove exactly   *)
(* once by the end of the Parsing stage, whether parsing succeeded or      *)
(* failed and before any schema query or alteration; its buffer is present *)
(* afterwards only if that call raised.                                    *)
C1_BufferReleasedUnlessRemoveRaises ==
    \A r \in Requests :
        /\ FailedAtFetch(r) => removal[r] = "none" /\ ~BufferPresent(r)
        /\ pc[r] \in PastParsing \/ FailedAtParse(r) =>
              /\ removal[r] \in {"removed", "raised"}
              /\ BufferPresent(r) => removal[r] = "raised"
        /\ removal[r] = "none" => schema_query[r] = "none" /\ evolve_conn[r] = "none"

C1_Witness ==
    \E r \in Requests :
        /\ FailedAtParse(r) /\ cause[r] = "Malformed"
        /\ removal[r] = "removed"
        /\ fs[basename(file_path[r])] = NoFile

-----------------------------------------------------------------------------
(* C2, as stated: a failed request has status 404 when the object is not   *)
(* found, 400 when the CSV is malformed and 500 for every other failure,   *)
(* and its body holds a detail string only.                                *)
C2_StatusByFailure ==
    \A r \in Requests :
        pc[r] = "Failed" =>
            /\ response[r].status =
                  CASE cause[r] = "NotFound" -> 404
                    [] cause[r] = "Malformed" -> 400
                    [] OTHER -> 500
            /\ DOMAIN response[r] = {"status", "detail"}

-----------------------------------------------------------------------------
(* C3, as stated: when fetch and parse succeed and the schema query fails, *)
(* the request does not abort, ends with status 200, table_columns = [],   *)
(* missing_columns = csv_columns, and an ALTER has been attempted for      *)
(* every CSV column.  Stated for a complete configuration, so that the     *)
(* failures are those of the remote service.                               *)
C3_SchemaFailureAltersEveryColumn ==
    \A r \in Requests :
        /\ schema_query[r] = "raised" => pc[r] # "Failed"
        /\ (config = RequiredConfig /\ schema_query[r] = "raised"
              /\ pc[r] = "Responding") =>
              /\ response[r].status = 200
              /\ response[r].table_columns = <<>>
              /\ response[r].missing_columns = response[r].csv_columns
              /\ AttemptedCols(r) = response[r].csv_columns

(* C3, amended: as above, except that update_table_schema is called with   *)
(* every CSV column and the ALTERs are attempted for every CSV column when *)
(* its connection opens; when the connection does not open no ALTER is     *)
(* attempted.                                                              *)
C3_SchemaFailureDegradesToEmptySchema ==
    \A r \in Requests :
        /\ schema_query[r] = "raised" => pc[r] # "Failed"
        /\ schema_query[r] = "raised" /\ pc[r] = "Responding" =>
              /\ response[r].status = 200
              /\ response[r].table_columns = <<>>
              /\ response[r].missing_columns = response[r].csv_columns
              /\ evolve_conn[r] \in {"closed", "failed"}
              /\ evolve_conn[r] = "closed" =>
                    AttemptedCols(r) = response[r].csv_columns
              /\ evolve_conn[r] = "failed" => attempts[r] = <<>>

C3_Witness ==
    \E r \in Requests :
        /\ pc[r] = "Responding"
        /\ schema_query[r] = "raised"
        /\ evolve_conn[r] = "closed"
        /\ AttemptedCols(r) = <<"A", "B", "C">>

-----------------------------------------------------------------------------
(* C4, as stated: a request that called update_table_schema ends with     *)
(* status 200, its missing_columns lists every missing column computed,    *)
(* and exactly one ADD COLUMN has been executed for each of them, in       *)
(* order.  Stated for a complete configuration.                            *)
C4_OneStatementPerMissingColumn ==
    \A r \in Requests :
        (config = RequiredConfig /\ pc[r] = "Responding") =>
            /\ response[r].status = 200
            /\ response[r].missing_columns =
                  Missing(df[r].columns, current_schema[r])
            /\ AttemptedCols(r) = response[r].missing_columns

(* C4, amended: once its connection is open, update_table_schema executes  *)
(* exactly one ADD COLUMN per missing column, in the order of              *)
(* missing_columns, going on after a statement that failed; when the       *)
(* connection does not open it executes none.  Neither a failed statement  *)
(* nor a connection that does not open fails the request: it ends with     *)
(* status 200 and a missing_columns that lists every missing column        *)
(* computed.                                                               *)
C4_EveryMissingColumnAttemptedOnce ==
    \A r \in Requests :
        /\ evolve_conn[r] = "open" =>
              AttemptedCols(r) \o todo[r] = missing_columns[r]
        /\ evolve_conn[r] = "closed" => AttemptedCols(r) = missing_columns[r]
        /\ evolve_conn[r] = "failed" => attempts[r] = <<>>
        /\ evolve_conn[r] # "none" => pc[r] \in PastDiffing
        /\ evolve_conn[r] \in {"closed", "failed"} =>
              /\ pc[r] = "Responding"
              /\ response[r].status = 200
              /\ response[r].missing_columns =
                    Missing(df[r].columns, current_schema[r])

\* A statement failed and the one after it succeeded.
C4_Witness ==
    \E r \in Requests :
        /\ pc[r] = "Responding"
        /\ evolve_conn[r] = "closed"
        /\ \E i \in 1..(Len(attempts[r]) - 1) :
              ~attempts[r][i][2] /\ attempts[r][i + 1][2]
        /\ response[r].status = 200
        /\ Len(response[r].missing_columns) = Len(attempts[r])

-----------------------------------------------------------------------------
(* C5: a request whose missing_columns is empty opens no connection for    *)
(* the Evolving stage and executes no ALTER statement.                     *)
C5_NothingMissingNothingAltered ==
    \A r \in Requests :
        pc[r] \in PastDiffing /\ missing_columns[r] = <<>> =>
            evolve_conn[r] = "none" /\ attempts[r] = <<>>

C5_Witness ==
    \E r \in Requests :
        /\ pc[r] = "Responding"
        /\ schema_query[r] = "ok"
        /\ response[r].missing_columns = <<>>
        /\ table = initial_table

-----------------------------------------------------------------------------
(* C6: missing_columns holds exactly the CSV columns that are not in the   *)
(* schema the request obtained, names compared case-sensitively, in the    *)
(* CSV's column order and without duplicates.  Checked on the diffing      *)
(* runs, for every header and every schema.                                *)
C6_MissingIsOrderedDifference ==
    \A r \in Requests :
        pc[r] \in PastDiffing =>
            /\ Range(missing_columns[r]) =
                  Range(df[r].columns) \ Range(current_schema[r])
            /\ NoDuplicates(missing_columns[r])
            /\ InOrderOf(missing_columns[r], df[r].columns)
            /\ pc[r] = "Responding" =>
                  response[r].missing_columns = missing_columns[r]

\* The schema holds "a" and the CSV "A", so "A" is missing; and the CSV
\* [A, B, C] against the schema [A, B] gives [C].
C6_Witness ==
    \E r \in Requests :
        /\ pc[r] = "Responding"
        /\ response[r].csv_columns = <<"A", "B", "C">>
        /\ \/ /\ response[r].table_columns = <<"a", "B">>
              /\ response[r].missing_columns = <<"A", "C">>
              /\ table = <<"a", "B", "C">>
           \/ /\ response[r].table_columns = <<"A", "B">>
              /\ response[r].missing_columns = <<"C">>
              /\ table = <<"A", "B">>

-----------------------------------------------------------------------------
(* C7, as stated: no request ends with a 200 response while a required     *)
(* configuration value is unset.                                           *)
C7_NoSuccessWithoutConfiguration ==
    \A r \in Requests :
        pc[r] = "Responding" /\ response[r].status = 200 =>
            config = RequiredConfig

-----------------------------------------------------------------------------
(* C8, as stated: a request's parse sees the object the request itself     *)
(* asked for, whatever other requests do: the parsed table is that         *)
(* object's, and parsing fails only if that object is not a CSV.           *)
C8_RequestsDoNotInterfere ==
    \A r \in Requests :
        /\ pc[r] \in PastParsing =>
              /\ Object(file_path[r]).kind = "csv"
              /\ df[r].columns = Object(file_path[r]).columns
              /\ df[r].rows = Object(file_path[r]).rows
        /\ FailedAtParse(r) => Object(file_path[r]).kind = "garbage"

-----------------------------------------------------------------------------
(* C9 *)

\* The columns added to the remote table before the request arrived.
AddedBefore(r) == Range(table_at_start[r]) \ Range(initial_table)

(* C9, as stated: a request executes each ADD COLUMN at most once; a CSV   *)
(* column that is absent from the remote table is reported in              *)
(* missing_columns and its ALTER is attempted by the request; a column     *)
(* whose ALTER succeeded before the request arrived is neither reported    *)
(* nor altered by it.  Stated for a complete configuration.                *)
C9_FailedRetriedAddedForgotten ==
    \A r \in Requests :
        /\ NoDuplicates(AttemptedCols(r))
        /\ config = RequiredConfig /\ pc[r] = "Responding" =>
              /\ \A c \in Range(df[r].columns) \ Range(table_at_query[r]) :
                    /\ c \in Range(response[r].missing_columns)
                    /\ c \in Range(AttemptedCols(r))
              /\ \A c \in AddedBefore(r) :
                    /\ c \notin Range(response[r].missing_columns)
                    /\ c \notin Range(AttemptedCols(r))

(* C9, amended: a request executes each ADD COLUMN at most once; a CSV     *)
(* column that is absent from the remote table is reported in              *)
(* missing_columns, and its ALTER is attempted by the request if the       *)
(* connection of update_table_schema opens; a column whose ALTER succeeded *)
(* before the request arrived is neither reported nor altered by it if the *)
(* request's schema query succeeds.                                        *)
C9_RetriedWhenConnectedForgottenWhenQueried ==
    \A r \in Requests :
        /\ NoDuplicates(AttemptedCols(r))
        /\ pc[r] = "Responding" =>
              /\ \A c \in Range(df[r].columns) \ Range(table_at_query[r]) :
                    /\ c \in Range(response[r].missing_columns)
                    /\ evolve_conn[r] = "closed" => c \in Range(AttemptedCols(r))
              /\ schema_query[r] = "ok" =>
                    \A c \in AddedBefore(r) :
                        /\ c \notin Range(response[r].missing_columns)
                        /\ c \notin Range(AttemptedCols(r))

\* Two requests for the same CSV, one after the other: the first added "C"
\* and failed to add "A"; the second attempts "A" again and leaves "C".
C9_Witness ==
    \E r, q \in Requests :
        /\ pc[r] = "Responding" /\ pc[q] = "Responding"
        /\ file_path[r] = file_path[q]
        /\ <<"A", FALSE>> \in Range(attempts[r])
        /\ <<"C", TRUE>> \in Range(attempts[r])
        /\ "C" \in AddedBefore(q)
        /\ schema_query[q] = "ok"
        /\ response[q].missing_columns = <<"A">>
        /\ attempts[q] = << <<"A", FALSE>> >>

-----------------------------------------------------------------------------
(* C10 *)

StageOrder ==
    {<<"Idle", "Fetching">>, <<"Fetching", "Parsing">>,
     <<"Parsing", "ParsingFinally">>, <<"ParsingFinally", "SchemaQuery">>,
     <<"SchemaQuery", "Diffing">>, <<"Diffing", "Evolving">>,
     <<"Evolving", "Responding">>} \cup
    {<<stage, "Failed">> :
        stage \in {"Fetching", "Parsing", "ParsingFinally", "SchemaQuery",
                   "Diffing", "Evolving"}}

\* A request whose fetch or parse failed has not touched the remote table,
\* and the remote table still starts with its initial columns.
C10_RemoteUntouchedOnEarlyFailure ==
    /\ \A r \in Requests :
          (cause[r] \in FetchFailures \/ csv_error[r]) =>
              /\ schema_query[r] = "none"
              /\ evolve_conn[r] = "none"
              /\ attempts[r] = <<>>
    /\ \A r \in Requests : Arrived(r) => IsPrefix(initial_table, table_at_start[r])
    /\ IsPrefix(initial_table, table)

\* A step moves a request to the next stage or to Failed, and changes the
\* remote table only by appending a missing column of a request that is
\* Evolving.
C10_StepInOrder ==
    /\ \A r \in Requests : pc'[r] # pc[r] => <<pc[r], pc'[r]>> \in StageOrder
    /\ table' # table =>
          \E r \in Requests :
              /\ pc[r] = "Evolving"
              /\ \E c \in Range(missing_columns[r]) : table' = Append(table, c)

(* C10: the stages run in the order Fetching, Parsing, SchemaQuery,        *)
(* Diffing, Evolving, Responding; a request that fails at fetch or parse   *)
(* opens no remote connection, queries no schema and executes no ALTER;    *)
(* the remote table only grows: its initial columns stay in place.         *)
C10_StagesInOrderRemoteOnlyGrows ==
    [][C10_StepInOrder]_vars /\ []C10_RemoteUntouchedOnEarlyFailure

C10_Witness ==
    \E r, q \in Requests :
        /\ FailedAtParse(r) /\ response[r].status = 400
        /\ pc[q] = "Responding"
        /\ Len(table) > Len(initial_table)

====
